---- MODULE Spec2Model ----
(***************************************************************************)
(* eldrow: a word-puzzle assistant.  A session holds a candidate set of    *)
(* words; each command line read from stdin is parsed (Command::from_str), *)
(* dispatched in main's loop, narrows the set with the retain-based        *)
(* primitives prune / prune_at / require / require_at, and is followed by  *)
(* a letter-frequency recommendation.  A Rust panic ends the process.      *)
(*                                                                         *)
(* Text is modelled as sequences of one-character strings.  A command line *)
(* is the record [cmd, args]: cmd is the text before the first space and   *)
(* args the space-separated tokens after it (no token: the line holds no   *)
(* space).  Indices are zero-based as in the source.                       *)
(***************************************************************************)
EXTENDS Integers, Sequences, FiniteSets, TLC

\* ---------------------------------------------------------------- bounds
MaxGuesses == 2     \* guesses accepted in one session (caps the history)
MaxChars   == 1     \* letters in the argument of prune / require

\* ---------------------------------------------------------------- inputs
L == 3              \* Args.length: the word length the session is run with

Alphabet == {"a", "b", "e", "t"}

\* The lines of the wordlist file: a duplicate and a line of the wrong length.
WordFile ==
    << <<"b","e","e">>, <<"b","e","t">>, <<"b","a","t">>, <<"t","a","b">>,
       <<"t","e","e">>, <<"b","e","e">>, <<"b","e","a","t">> >>

Range(s) == {s[i] : i \in 1..Len(s)}

\* main, lines 94-99: keep the lines of length L, collect into a set.
ReadWords == {w \in Range(WordFile) : Len(w) = L}

NoWord == <<>>

\* ------------------------------------------------------------ primitives
\* str::contains(ch)
HasChar(word, ch) == \E i \in 1..Len(word) : word[i] = ch

\* A bug that filters the whole dictionary instead of the current set.
prune_reset(words, ch) == {w \in ReadWords : ~HasChar(w, ch)}

prune(words, ch) == {w \in words : ~HasChar(w, ch)}

\* A bug that removes one offending word instead of all of them.
prune_at_once(words, ch, idx) ==
    LET bad == {w \in words : w[idx + 1] = ch}
    IN  IF bad = {} THEN words ELSE words \ {CHOOSE w \in bad : TRUE}

prune_at(words, ch, idx) == {w \in words : w[idx + 1] # ch}

\* A bug that refuses to empty the set.
require_keep(words, ch) ==
    LET kept == {w \in words : HasChar(w, ch)}
    IN  IF kept = {} THEN words ELSE kept

require(words, ch) == {w \in words : HasChar(w, ch)}

\* A bug that compares the wrong way round.
require_at_ne(words, ch, idx) == {w \in words : w[idx + 1] # ch}

require_at(words, ch, idx) == {w \in words : w[idx + 1] = ch}

\* word.chars().nth(idx).unwrap() inside retain: the closure runs for each
\* word of the set, and panics when the word has no character at idx.
NthPanics(words, idx) == \E w \in words : idx >= Len(w)

\* One primitive call, as a record [op, ch, idx].
Op(op, ch, idx) == [op |-> op, ch |-> ch, idx |-> idx]

ApplyOp(words, o) ==
    CASE o.op = "prune"      -> prune(words, o.ch)
      [] o.op = "prune_at"   -> prune_at(words, o.ch, o.idx)
      [] o.op = "require"    -> require(words, o.ch)
      [] o.op = "require_at" -> require_at(words, o.ch, o.idx)

OpPanics(words, o) ==
    o.op \in {"prune_at", "require_at"} /\ NthPanics(words, o.idx)

\* The calls of ops made in order on the set; a panic stops the run and
\* leaves the set as the calls before it made it.
RECURSIVE RunOps(_, _)
RunOps(words, ops) ==
    IF ops = <<>> THEN [words |-> words, panic |-> FALSE]
    ELSE IF OpPanics(words, Head(ops)) THEN [words |-> words, panic |-> TRUE]
    ELSE RunOps(ApplyOp(words, Head(ops)), Tail(ops))

\* ---------------------------------------------------------------- parsing
Digits == {"0", "1", "2", "3", "4", "5", "6", "7", "8", "9"}

\* char::to_digit(10) on a decimal digit.
DigitVal(c) ==
    CASE c = "0" -> 0 [] c = "1" -> 1 [] c = "2" -> 2 [] c = "3" -> 3
      [] c = "4" -> 4 [] c = "5" -> 5 [] c = "6" -> 6 [] c = "7" -> 7
      [] c = "8" -> 8 [] c = "9" -> 9

\* The text of space-separated tokens.
RECURSIVE Join(_)
Join(toks) ==
    IF toks = <<>> THEN <<>>
    ELSE IF Len(toks) = 1 THEN toks[1]
    ELSE toks[1] \o <<" ">> \o Join(Tail(toks))

AtToken == <<"a", "t">>

\* Where the first " at " of the text lies: the token "at" with a space on
\* both sides, or 0.
AtPos(toks) ==
    LET hits == {k \in 2..(Len(toks) - 1) : toks[k] = AtToken}
    IN  IF hits = {} THEN 0 ELSE CHOOSE k \in hits : \A j \in hits : k <= j

\* args.split(" at "): the first piece, and the second piece when there is one.
SplitAt(toks) ==
    LET k == AtPos(toks)
    IN  IF k = 0 THEN [chars |-> Join(toks), has_loc |-> FALSE, loc |-> <<>>]
        ELSE LET rest == SubSeq(toks, k + 1, Len(toks))
                 k2   == AtPos(rest)
             IN  [chars   |-> Join(SubSeq(toks, 1, k - 1)),
                  has_loc |-> TRUE,
                  loc     |-> IF k2 = 0 THEN Join(rest)
                              ELSE Join(SubSeq(rest, 1, k2 - 1))]

\* str::parse::<usize>() succeeds on a non-empty run of decimal digits.
ParsesAsUsize(t) == t # <<>> /\ \A i \in 1..Len(t) : t[i] \in Digits

RECURSIVE UsizeOf(_)
UsizeOf(t) ==
    IF t = <<>> THEN 0
    ELSE 10 * UsizeOf(SubSeq(t, 1, Len(t) - 1)) + DigitVal(t[Len(t)])

\* split_once(','): where the first comma is, or 0.
CommaPos(t) ==
    LET hits == {k \in 1..Len(t) : t[k] = ","}
    IN  IF hits = {} THEN 0 ELSE CHOOSE k \in hits : \A j \in hits : k <= j

\* The closure to_vec: c.to_digit(10).unwrap() on every character.
ToVecPanics(t) == \E i \in 1..Len(t) : t[i] \notin Digits

to_vec(t) == [i \in 1..Len(t) |-> DigitVal(t[i])]

Ok(c) == [res |-> "Ok", cmd |-> c, err |-> ""]

Err(e) == [res |-> "Err", cmd |-> [op |-> "None"], err |-> e]

ParsePanic == [res |-> "Panic", cmd |-> [op |-> "None"], err |-> ""]

\* The arms "prune" | "p" and "require" | "r" of from_str.
ParseLetterCmd(args, plain, positional) ==
    LET sp == SplitAt(args)
    IN  IF sp.has_loc
        THEN IF sp.chars = <<>> THEN Err("ImproperArgumentCount")
             ELSE IF ~ParsesAsUsize(sp.loc) THEN Err("MalformedArgument")
             ELSE Ok([op |-> positional, ch |-> sp.chars[1], idx |-> UsizeOf(sp.loc)])
        ELSE Ok([op |-> plain, chars |-> sp.chars])

\* The arm "guess" | "g" of from_str.
ParseGuess(args) ==
    IF Len(args) < 2 THEN Err("ImproperArgumentCount")
    ELSE LET indices == Join(Tail(args))
             k       == CommaPos(indices)
         IN  IF k = 0 THEN Err("MalformedArgument")
             ELSE LET correct   == SubSeq(indices, 1, k - 1)
                      incorrect == SubSeq(indices, k + 1, Len(indices))
                  IN  IF ToVecPanics(correct) \/ ToVecPanics(incorrect)
                      THEN ParsePanic
                      ELSE Ok([op |-> "Guess", word |-> args[1],
                               correct |-> to_vec(correct),
                               incorrect |-> to_vec(incorrect)])

\* Command::from_str.
from_str(s) ==
    IF Len(s.args) = 0 THEN Err("ImproperArgumentCount")
    ELSE CASE s.cmd = "contains" -> Ok([op |-> "Contains", word |-> Join(s.args)])
           [] s.cmd \in {"guess", "g"} -> ParseGuess(s.args)
           [] s.cmd \in {"prune", "p"} -> ParseLetterCmd(s.args, "Prune", "PruneAt")
           [] s.cmd \in {"require", "r"} -> ParseLetterCmd(s.args, "Require", "RequireAt")
           [] OTHER -> Err("InvalidCommand")

\* ------------------------------------------------------------------ tiles
Tile(kind, ch) == [kind |-> kind, ch |-> ch]

\* guess.chars().map(Tile::Unchecked)
Unchecked(guess) == [i \in 1..Len(guess) |-> Tile("Unchecked", guess[i])]

\* One of the two for_each loops over an index list: tiles[i] panics on an
\* index past the end, and the arm unreachable!() on a tile already marked.
RECURSIVE Mark(_, _, _)
Mark(tiles, indices, kind) ==
    IF indices = <<>> THEN [tiles |-> tiles, panic |-> ""]
    ELSE LET i == Head(indices) + 1
         IN  IF i > Len(tiles) THEN [tiles |-> tiles, panic |-> "index"]
             ELSE IF tiles[i].kind # "Unchecked"
                  THEN [tiles |-> tiles, panic |-> "unreachable"]
             ELSE Mark([tiles EXCEPT ![i] = Tile(kind, tiles[i].ch)],
                       Tail(indices), kind)

\* Lines 140-156: the tiles of a guess.
Classify(guess, correct_indices, incorrect_indices) ==
    LET c == Mark(Unchecked(guess), correct_indices, "Correct")
    IN  IF c.panic # "" THEN c
        ELSE LET n == Mark(c.tiles, incorrect_indices, "Incorrect")
             IN  IF n.panic # "" THEN n
                 ELSE [tiles |-> [i \in 1..Len(n.tiles) |->
                                    IF n.tiles[i].kind = "Unchecked"
                                    THEN Tile("Unused", n.tiles[i].ch)
                                    ELSE n.tiles[i]],
                       panic |-> ""]

\* Lines 158-165: the letters of the Correct and Incorrect tiles.
IsMarked(t) == t.kind \in {"Correct", "Incorrect"}

marked_tiles(tiles) ==
    LET sel == SelectSeq(tiles, IsMarked)
    IN  [k \in 1..Len(sel) |-> sel[k].ch]

\* A bug that drops the safeguard: every Unused letter is pruned globally.
AlwaysPrune(marked, ch) == TRUE

\* Line 171: whether an Unused letter is pruned globally.
ShouldPrune(marked, ch) ==
    Len(marked) = 0 \/ ~(\E k \in 1..Len(marked) : marked[k] = ch)

\* Lines 167-174: the global prunes, in tile order.
RECURSIVE GlobalPrunes(_, _, _)
GlobalPrunes(tiles, marked, i) ==
    IF i > Len(tiles) THEN <<>>
    ELSE (IF tiles[i].kind = "Unused" /\ ShouldPrune(marked, tiles[i].ch)
          THEN <<Op("prune", tiles[i].ch, 0)>> ELSE <<>>)
         \o GlobalPrunes(tiles, marked, i + 1)

\* Lines 176-186: the calls made for the tile at position i (zero-based i - 1).
TileOps(tile, i) ==
    CASE tile.kind = "Correct"   -> <<Op("require_at", tile.ch, i - 1)>>
      [] tile.kind = "Incorrect" -> <<Op("prune_at", tile.ch, i - 1),
                                      Op("require", tile.ch, 0)>>
      [] tile.kind = "Unused"    -> <<Op("prune_at", tile.ch, i - 1)>>

RECURSIVE PositionOps(_, _)
PositionOps(tiles, i) ==
    IF i > Len(tiles) THEN <<>>
    ELSE TileOps(tiles[i], i) \o PositionOps(tiles, i + 1)

\* Every primitive call of one guess, in the order the code makes them.
GuessOps(tiles) ==
    GlobalPrunes(tiles, marked_tiles(tiles), 1) \o PositionOps(tiles, 1)

\* chars.chars().for_each(|ch| f(&mut words, ch)) of Prune and Require.
CharsOps(op, chars) == [k \in 1..Len(chars) |-> Op(op, chars[k], 0)]

\* The primitive calls a parsed command makes (a Guess: of its tiles).
CmdOps(c) ==
    CASE c.op = "Prune"     -> CharsOps("prune", c.chars)
      [] c.op = "Require"   -> CharsOps("require", c.chars)
      [] c.op = "PruneAt"   -> <<Op("prune_at", c.ch, c.idx)>>
      [] c.op = "RequireAt" -> <<Op("require_at", c.ch, c.idx)>>
      [] c.op = "Guess"     ->
            GuessOps(Classify(c.word, c.correct, c.incorrect).tiles)
      [] OTHER -> <<>>

\* --------------------------------------------------------- recommendation
\* How often ch occurs in word.
CountIn(word, ch) == Cardinality({i \in 1..Len(word) : word[i] = ch})

RECURSIVE CountAll(_, _)
CountAll(words, ch) ==
    IF words = {} THEN 0
    ELSE LET w == CHOOSE x \in words : TRUE
         IN  CountIn(w, ch) + CountAll(words \ {w}, ch)

\* A variant that counts each word once per letter it contains.
letter_counts_once(words) ==
    [c \in UNION {Range(w) : w \in words} |->
        Cardinality({w \in words : HasChar(w, c)})]

\* letter_counts: one increment for every character of every word.
letter_counts(words) ==
    [c \in UNION {Range(w) : w \in words} |-> CountAll(words, c)]

RECURSIVE score(_, _)
\* score: the sum of the counts of the word's characters.
score(word, counts) ==
    IF word = <<>> THEN 0
    ELSE counts[Head(word)] + score(Tail(word), counts)

\* Lines 193-196: max_by over the HashSet returns a word of maximal score;
\* which one, among equals, depends on the set's iteration order.
BestWords(words) ==
    LET counts == letter_counts(words)
    IN  {w \in words : \A v \in words : score(v, counts) <= score(w, counts)}

\* ------------------------------------------------------------ input lines
\* The words guessed or asked about: two with a repeated letter, one without,
\* one that is not in the dictionary.
GuessWords ==
    { <<"b","e","e">>, <<"t","e","e">>, <<"t","a","b">>, <<"a","t","e">> }

\* The digits of a set of positions, in ascending order.
RECURSIVE IdxStr(_)
IdxStr(set) ==
    IF set = {} THEN <<>>
    ELSE LET m == CHOOSE x \in set : \A y \in set : x <= y
         IN  <<CHOOSE d \in Digits : DigitVal(d) = m>> \o IdxStr(set \ {m})

\* The index argument of every classification of the L positions: each
\* position is correct, incorrect or neither.
ValidIndexTokens ==
    {IdxStr(c) \o <<",">> \o IdxStr(i) :
        <<c, i>> \in {p \in (SUBSET (0..(L - 1))) \X (SUBSET (0..(L - 1))) :
                        p[1] \cap p[2] = {}}}

\* Index arguments the specification calls errors: a position past the
\* word, a position named twice, a non-digit, no comma.
FaultyIndexTokens ==
    { <<"3", ",">>, <<",", "3">>, <<"0", ",", "3">>,
      <<"0", ",", "0">>, <<"1", "2", ",", "2">>, <<"0", "0", ",">>,
      <<"x", ",">>, <<",", "x">>, <<"0", ",", "1", "x">>, <<"0", "-", "1">>,
      <<"0", "1">> }

IndexTokens == ValidIndexTokens \cup FaultyIndexTokens

LetterStrs == UNION {[1..n -> Alphabet] : n \in 1..MaxChars}

\* What stands before " at ": one letter, nothing, or more than one letter.
AtChars == {<<c>> : c \in Alphabet} \cup {<<>>, <<"b", "e">>}

LocTokens == {<<"0">>, <<"1">>, <<"2">>, <<"3">>, <<"x">>}

Line(cmd, args) == [cmd |-> cmd, args |-> args]

Lines ==
    {Line("guess", <<>>), Line("undo", <<<<"b","e","e">>>>),
     Line("guess", <<<<"b","e","e">>>>)}
    \cup {Line("contains", <<w>>) : w \in GuessWords}
    \cup {Line("guess", <<w, t>>) : w \in GuessWords, t \in IndexTokens}
    \cup {Line(c, <<cs>>) : c \in {"prune", "require"}, cs \in LetterStrs}
    \cup {Line(c, <<cs, AtToken, loc>>) :
            c \in {"prune", "require"}, cs \in AtChars,
            loc \in LocTokens}

NoLine == Line("", <<>>)

\* Command::from_str on every input line.
Parse == [s \in Lines |-> from_str(s)]

\* The lines that parse to operation op.
LinesOf(op) == {s \in Lines : Parse[s].res = "Ok" /\ Parse[s].cmd.op = op}

ErrLines == {s \in Lines : Parse[s].res = "Err"}

UnwrapLines == {s \in Lines : Parse[s].res = "Panic"}

ContainsLines == LinesOf("Contains")

PruneLines == LinesOf("Prune")

PruneAtLines == LinesOf("PruneAt")

RequireLines == LinesOf("Require")

RequireAtLines == LinesOf("RequireAt")

GuessLines == LinesOf("Guess")

\* ------------------------------------------------------------------ state
VARIABLES
    words,      \* the candidate set
    guesses,    \* the guess history
    status,     \* "running", "done" (loop left) or the panic that ended it
    line,       \* the command line read last
    prev,       \* words and guesses as they were when that line was read
    out         \* what the iteration printed last

vars == <<words, guesses, status, line, prev, out>>

NoOut == [kind |-> "none", text |-> "", word |-> NoWord]

\* while words.len() > 1
LoopStatus(ws) == IF Cardinality(ws) > 1 THEN "running" ELSE "done"

Init ==
    /\ words = ReadWords
    /\ guesses = <<>>
    /\ status = LoopStatus(ReadWords)
    /\ line = NoLine
    /\ prev = [words |-> ReadWords, guesses |-> <<>>]
    /\ out = NoOut

\* Reading one line at the top of the loop.
Read(s) ==
    /\ status = "running"
    /\ line' = s
    /\ prev' = [words |-> words, guesses |-> guesses]

\* Lines 190-201: print the set, recommend, or panic on the empty set; then
\* the loop condition.
Recommend(ws) ==
    IF ws = {}
    THEN /\ status' = "panic_empty"
         /\ out' = NoOut
    ELSE /\ \E r \in BestWords(ws) :
                out' = [kind |-> "recommend", text |-> "", word |-> r]
         /\ status' = LoopStatus(ws)

\* A panic: the process ends where it stands.
Panic(kind) ==
    /\ status' = kind
    /\ out' = NoOut

\* Lines 114-117: the line does not parse.
InvalidCommand ==
    \E s \in ErrLines :
        /\ Read(s)
        /\ out' = [kind |-> "error", text |-> Parse[s].err, word |-> NoWord]
        /\ UNCHANGED <<words, guesses, status>>

\* Line 43: to_digit(10).unwrap() on a character that is no digit.
ParseUnwrap ==
    \E s \in UnwrapLines :
        /\ Read(s)
        /\ Panic("panic_parse")
        /\ UNCHANGED <<words, guesses>>

\* Lines 120-123.
Contains ==
    \E s \in ContainsLines :
        /\ Read(s)
        /\ out' = [kind |-> "contains", word |-> NoWord,
                   text |-> IF Parse[s].cmd.word \in words THEN "true" ELSE "false"]
        /\ UNCHANGED <<words, guesses, status>>

\* The arms Prune, PruneAt, Require, RequireAt, then lines 190-201.
Narrow(s) ==
    LET r == RunOps(words, CmdOps(Parse[s].cmd))
    IN  /\ words' = r.words
        /\ UNCHANGED guesses
        /\ IF r.panic THEN Panic("panic_index") ELSE Recommend(r.words)

Prune == \E s \in PruneLines : Read(s) /\ Narrow(s)

PruneAt == \E s \in PruneAtLines : Read(s) /\ Narrow(s)

Require == \E s \in RequireLines : Read(s) /\ Narrow(s)

RequireAt == \E s \in RequireAtLines : Read(s) /\ Narrow(s)

\* Lines 136-187, then lines 190-201.
Guess ==
    \E s \in GuessLines :
        /\ Read(s)
        /\ Len(guesses) < MaxGuesses
        /\ LET c  == Parse[s].cmd
               cl == Classify(c.word, c.correct, c.incorrect)
           IN  /\ guesses' = Append(guesses, c.word)
               /\ IF cl.panic # ""
                  THEN /\ Panic("panic_" \o cl.panic)
                       /\ UNCHANGED words
                  ELSE LET r == RunOps(words, GuessOps(cl.tiles))
                       IN  /\ words' = r.words
                           /\ IF r.panic THEN Panic("panic_index")
                              ELSE Recommend(r.words)

Next ==
    \/ InvalidCommand
    \/ ParseUnwrap
    \/ Contains
    \/ Prune
    \/ PruneAt
    \/ Require
    \/ RequireAt
    \/ Guess

Spec == Init /\ [][Next]_vars

\* ------------------------------------------------------------ properties
IsPanic(st) == st \in {"panic_parse", "panic_index", "panic_unreachable", "panic_empty"}

\* The line read last parsed to a command of operation op.
Acted(op) == line # NoLine /\ Parse[line].res = "Ok" /\ Parse[line].cmd.op = op

LastCmd == Parse[line].cmd

Occurs(w, ch) == ch \in Range(w)

CorrectSet == Range(LastCmd.correct)

IncorrectSet == Range(LastCmd.incorrect)

\* The line read last is a guess of a word of length L whose index lists are
\* disjoint sets of positions within [0, L).
ValidGuess ==
    /\ Acted("Guess")
    /\ Len(LastCmd.word) = L
    /\ CorrectSet \cup IncorrectSet \subseteq 0..(L - 1)
    /\ CorrectSet \cap IncorrectSet = {}
    /\ Cardinality(CorrectSet) = Len(LastCmd.correct)
    /\ Cardinality(IncorrectSet) = Len(LastCmd.incorrect)

UnusedSet == (0..(L - 1)) \ (CorrectSet \cup IncorrectSet)

\* The letters of the Correct and Incorrect tiles of the last guess.
MarkedLetters == {LastCmd.word[i + 1] : i \in CorrectSet \cup IncorrectSet}

\* The letters Unused at one position and Correct or Incorrect at another.
ProtectedLetters == {LastCmd.word[i + 1] : i \in UnusedSet} \cap MarkedLetters

\* What the tile at position i alone asks of candidate w.
PositionHolds(w, i) ==
    LET g == LastCmd.word[i + 1]
    IN  IF i \in CorrectSet THEN w[i + 1] = g
        ELSE IF i \in IncorrectSet THEN w[i + 1] # g /\ Occurs(w, g)
        ELSE w[i + 1] # g

\* C1: duplicate-letter safeguard.  After a guess, a candidate that meets
\* every position's own condition and holds no Unused letter other than
\* letters also marked Correct or Incorrect in the guess is still a
\* candidate: a letter Unused here and marked there removes only the words
\* having it at the Unused position.
C1_DuplicateLetterSafeguard ==
    ValidGuess =>
        \A w \in prev.words :
            ( /\ \A i \in 0..(L - 1) : PositionHolds(w, i)
              /\ \A i \in UnusedSet :
                    Occurs(w, LastCmd.word[i + 1])
                        => LastCmd.word[i + 1] \in ProtectedLetters )
            => w \in words

C1_Witness ==
    /\ ValidGuess
    /\ \E w \in words : \E ch \in ProtectedLetters : Occurs(w, ch)
    /\ words # prev.words

\* The candidates of S a guess keeps, as the claim C2 words it.
Survives(w) ==
    \A i \in 0..(L - 1) :
        /\ PositionHolds(w, i)
        /\ (i \in UnusedSet /\ Occurs(w, LastCmd.word[i + 1]))
                => LastCmd.word[i + 1] \in MarkedLetters

\* C2: after a guess the candidate set is exactly the set of former
\* candidates with the Correct letters in place, the Incorrect letters
\* elsewhere, and the Unused letters absent (at their position only, when
\* the letter is also marked).
C2_GuessResult ==
    ValidGuess => words = {w \in prev.words : Survives(w)}

C2_Witness ==
    /\ ValidGuess
    /\ CorrectSet # {} /\ IncorrectSet # {} /\ UnusedSet # {}
    /\ words # {} /\ words # prev.words

\* The line read last carries a position that is not within [0, L).
OutOfRangeLine ==
    \/ /\ Acted("Guess")
       /\ ~(CorrectSet \cup IncorrectSet \subseteq 0..(L - 1))
    \/ /\ (Acted("PruneAt") \/ Acted("RequireAt"))
       /\ LastCmd.idx \notin 0..(L - 1)

\* The line was refused with an error and the session goes on unchanged.
Rejected ==
    /\ out.kind = "error"
    /\ status = "running"
    /\ words = prev.words

\* C3: a command with a position outside [0, L) is rejected, the candidate
\* set is unchanged and the session continues.
C3_IndexOutOfRangeRejected == OutOfRangeLine => Rejected

\* C4: a guess naming a position as both correct and incorrect is rejected,
\* the candidate set is unchanged and the session continues.
C4_ConflictRejected ==
    (Acted("Guess") /\ CorrectSet \cap IncorrectSet # {}) => Rejected

\* C5: a command that narrows the candidate set to zero words is followed
\* by an error report, never by a crash.
C5_EmptySetReported ==
    (line # NoLine /\ words = {} /\ prev.words # {}) => ~IsPanic(status)

\* Frequency of a letter as the claim C6 words it: the words containing it.
WordsWith(S, ch) == Cardinality({w \in S : Occurs(w, ch)})

RECURSIVE PresenceScore(_, _)
PresenceScore(word, S) ==
    IF word = <<>> THEN 0
    ELSE WordsWith(S, Head(word)) + PresenceScore(Tail(word), S)

\* C6 as stated: the recommended word is a candidate whose score, with a
\* letter's frequency the number of candidates containing it, is maximal.
C6_AsStated ==
    out.kind = "recommend" =>
        /\ out.word \in words
        /\ \A w \in words :
              PresenceScore(w, words) <= PresenceScore(out.word, words)

\* Frequency of a letter as the code counts it: its occurrences in the set.
OccurrencesIn(S, ch) ==
    Cardinality({p \in S \X (1..L) : p[1][p[2]] = ch})

RECURSIVE OccurrenceScore(_, _)
OccurrenceScore(word, S) ==
    IF word = <<>> THEN 0
    ELSE OccurrencesIn(S, Head(word)) + OccurrenceScore(Tail(word), S)

\* C6 amended: the recommended word is a candidate whose score, with a
\* letter's frequency the number of its occurrences in the candidates (a
\* word containing it twice counts twice), is maximal.
C6_Recommendation ==
    out.kind = "recommend" =>
        /\ out.word \in words
        /\ \A w \in words :
              OccurrenceScore(w, words) <= OccurrenceScore(out.word, words)

C6_Witness ==
    /\ out.kind = "recommend"
    /\ Cardinality(words) > 2
    /\ \E ch \in Alphabet : WordsWith(words, ch) # OccurrencesIn(words, ch)
    /\ \E w \in words :
          OccurrenceScore(w, words) < OccurrenceScore(out.word, words)

\* C7: the candidate set after a command is a subset of the set before it
\* and of the initial word list, and is no larger.
C7_MonotonicShrinkage ==
    /\ words \subseteq prev.words
    /\ prev.words \subseteq ReadWords
    /\ Cardinality(words) <= Cardinality(prev.words)

C7_Witness ==
    /\ line # NoLine
    /\ prev.words # ReadWords
    /\ words # prev.words
    /\ words # {}

\* The command read last was carried out as far as the recommendation.
Applied ==
    /\ \E op \in {"Prune", "PruneAt", "Require", "RequireAt", "Guess"} : Acted(op)
    /\ status \in {"running", "done", "panic_empty"}

\* C8: a guess, a prune, a prune_at, a require or a require_at applied once
\* more to its own result leaves that result as it is.
C8_Idempotence ==
    Applied =>
        LET again == RunOps(words, CmdOps(LastCmd))
        IN  ~again.panic /\ again.words = words

C8_Witness ==
    /\ Applied
    /\ Acted("Guess")
    /\ Len(guesses) = 2 /\ guesses[1] = guesses[2]
    /\ words = prev.words
    /\ words # ReadWords /\ words # {}

\* The sets the calls ops can leave of S when made in any order: from the
\* pairs <<calls made, set>> after k calls to those after k + 1.
RECURSIVE OrderResults(_, _, _)
OrderResults(ops, reached, k) ==
    IF k = 0 THEN {p[2] : p \in reached}
    ELSE OrderResults(ops,
            {<<q[1][1] \cup {q[2]}, ApplyOp(q[1][2], ops[q[2]])>> :
                q \in {x \in reached \X (1..Len(ops)) : x[2] \notin x[1][1]}},
            k - 1)

AnyOrder(S, ops) == OrderResults(ops, {<<{}, S>>}, Len(ops))

\* The primitive calls with a position inside the words.
PrimOps ==
    {Op(o, ch, 0) : o \in {"prune", "require"}, ch \in Alphabet}
    \cup {Op(o, ch, i) : o \in {"prune_at", "require_at"}, ch \in Alphabet,
                         i \in 0..(L - 1)}

\* C10: the calls of a guess made in any order leave the set the code's
\* order leaves, and any two primitives commute on the candidate set.
C10_OrderIndependence ==
    /\ ValidGuess =>
          AnyOrder(prev.words,
                   GuessOps(Classify(LastCmd.word, LastCmd.correct,
                                     LastCmd.incorrect).tiles)) = {words}
    /\ \A o1 \in PrimOps : \A o2 \in PrimOps :
          ApplyOp(ApplyOp(words, o1), o2) = ApplyOp(ApplyOp(words, o2), o1)

C10_Witness ==
    /\ ValidGuess
    /\ IncorrectSet # {} /\ UnusedSet # {}
    /\ Cardinality(words) > 1 /\ words # prev.words

\* C9: a line that does not parse into a command is rejected with an error;
\* candidate set and guess history are unchanged and the session continues.
C9_MalformedRejected ==
    (line # NoLine /\ Parse[line].res # "Ok") =>
        (Rejected /\ guesses = prev.guesses)

====
